---------------------------- MODULE Spec2Model ----------------------------
(***************************************************************************)
(* A model of TrainTicket/analyze_fault_detection.py: the fault catalog,   *)
(* the detection ledger and its insertion operation, the structured and    *)
(* the text evidence scanners, the test-method locator, the case counter,  *)
(* the report generator and main().                                        *)
(*                                                                         *)
(* Texts are sequences of tokens; every token stands for a literal piece   *)
(* of text of known character length, so offsets, slices and the 500       *)
(* character window are computed on character positions as the code does.  *)
(* JSON documents are nested records (maps, lists, strings, booleans).     *)
(***************************************************************************)
EXTENDS Integers, Sequences, FiniteSets, TLC

VARIABLES
    pc,               \* position of main() (or of the harness of a component)
    run,              \* which invocation of the program this is (1 or 2)
    folder_exists,    \* os.path.exists(test_folder)
    report_json,      \* the file report.json: [status, data]
    artifacts,        \* the *.py files of test_folder: file -> [readable, content]
    listing,          \* the order in which glob lists the files, for each invocation
    pending,          \* files the loop of _analyze_test_files has not visited yet
    detected_faults,  \* self.detected_faults: fault name -> sequence of details
    total_test_cases, \* self.total_test_cases
    report,           \* what generate_report wrote to output_file (NoReport: nothing)
    exit_code,        \* the exit status of the process (Running while it runs)
    trace,            \* the phases of main() completed so far, in order
    first_keys,       \* the ledger keys the first invocation ended with
    position,         \* the offset handed to _find_containing_test_method
    located,          \* what _find_containing_test_method returned
    call              \* the arguments of the latest _record_detection call

vars == <<pc, run, folder_exists, report_json, artifacts, listing, pending,
          detected_faults, total_test_cases, report, exit_code, trace, first_keys,
          position, located, call>>

\* What the program reads and never writes.
inputs == <<folder_exists, report_json, artifacts, listing>>

----------------------------------------------------------------------------
(* The fault catalog.  An api entry "METHOD PATH" is kept as its two parts  *)
(* (api.split(' ', 1)); a path is its literal prefix and its placeholder.   *)

Api(method, prefix, placeholder) ==
    [method |-> method, prefix |-> prefix, placeholder |-> placeholder]

AdminOrderApi ==
    << Api("POST", "/api/v1/adminorderservice/adminorder", ""),
       Api("PUT", "/api/v1/adminorderservice/adminorder", "") >>

PricesApi == << Api("POST", "/api/v1/adminbasicservice/adminbasic/prices", "") >>

MinStationApi == << Api("POST", "/api/v1/travelplanservice/travelPlan/minStation", "") >>

AdminTravelApi ==
    << Api("DELETE", "/api/v1/admintravelservice/admintravel/", "{tripId}") >>

AdminRouteApi == << Api("POST", "/api/v1/adminrouteservice/adminroute", "") >>

Fault(name, service, api) == [faultName |-> name, service |-> service, api |-> api]

INJECTED_FAULTS ==
    << Fault("INVALID_CONTACTS_NAME_FAULT", "ts-admin-order-service", AdminOrderApi),
       Fault("INVALID_SEAT_NUMBER_FAULT", "ts-admin-order-service", AdminOrderApi),
       Fault("INVALID_PRICE_RATE_FAULT", "ts-admin-basic-info-service", PricesApi),
       Fault("INVALID_ROUTE_ID_FAULT", "ts-admin-basic-info-service", PricesApi),
       Fault("INVALID_STATION_NAME_FAULT", "ts-travel-plan-service", MinStationApi),
       Fault("INVALID_STATION_LENGTH_FAULT", "ts-travel-plan-service", MinStationApi),
       Fault("INVALID_TRIP_ID_FORMAT_FAULT", "ts-admin-travel-service", AdminTravelApi),
       Fault("INVALID_TRIP_ID_LENGTH_FAULT", "ts-admin-travel-service", AdminTravelApi),
       Fault("INSUFFICIENT_STATIONS_FAULT", "ts-admin-route-service", AdminRouteApi),
       Fault("INVALID_STATION_NAME_LENGTH_FAULT", "ts-admin-route-service", AdminRouteApi) >>

CatalogNames == { INJECTED_FAULTS[i].faultName : i \in 1..Len(INJECTED_FAULTS) }

\* obj.get('faultName', 'UNKNOWN'): the default of the structured scanner.
UNKNOWN == "UNKNOWN"

----------------------------------------------------------------------------
(* Python values the model needs names for.                                *)

None == "<None>"              \* Python's None, as dict.get returns it
\* datetime.now().strftime(...): the capture time.  No decision of the program
\* reads a stored timestamp, so one value stands for every reading of the clock.
Now == "<timestamp>"
REPORT_JSON == "report.json"  \* the source name of structured evidence
NoReport == [written |-> FALSE]
Running == << >>              \* exit_code while the process runs; <<n>> after exit n
NoCall == [made |-> FALSE]

\* dict.get(key): the value, or None when the key is absent.
Get(d, key) == IF key \in DOMAIN d THEN d[key] ELSE None

\* self.detected_faults.get(fault_name, []): reads, and creates no key.
LedgerGet(ledger, fault_name) ==
    IF fault_name \in DOMAIN ledger THEN ledger[fault_name] ELSE << >>

\* defaultdict(list) right after __init__.
EmptyLedger == [n \in {} |-> << >>]

\* The (source, test_method) pair _record_detection compares.
KeyOf(details) == << Get(details, "source"), Get(details, "test_method") >>

IsDuplicate(existing, details) ==
    \E i \in 1..Len(existing) :
        /\ Get(existing[i], "test_method") = Get(details, "test_method")
        /\ Get(existing[i], "source") = Get(details, "source")

\* A plausible slip: the duplicate test is lost and every call appends.
RecordAlways(ledger, fault_name, details) ==
    [n \in DOMAIN ledger \cup {fault_name} |->
        IF n = fault_name THEN Append(LedgerGet(ledger, fault_name), details)
                          ELSE ledger[n]]

\* A plausible slip: a new record replaces the list instead of extending it.
RecordReplacing(ledger, fault_name, details) ==
    IF IsDuplicate(LedgerGet(ledger, fault_name), details)
    THEN ledger
    ELSE [n \in DOMAIN ledger \cup {fault_name} |->
            IF n = fault_name THEN << details >> ELSE ledger[n]]

\* _record_detection: the ledger after the call.
RecordDetection(ledger, fault_name, details) ==
    IF IsDuplicate(LedgerGet(ledger, fault_name), details)
    THEN ledger
    ELSE [n \in DOMAIN ledger \cup {fault_name} |->
            IF n = fault_name THEN Append(LedgerGet(ledger, fault_name), details)
                              ELSE ledger[n]]

\* The number of records a ledger holds: sum(len(d) for d in values()).
RECURSIVE SumLens(_, _)
SumLens(ledger, names) ==
    IF names = {} THEN 0
    ELSE LET n == CHOOSE x \in names : TRUE
         IN Len(ledger[n]) + SumLens(ledger, names \ {n})

TotalRecords(ledger) == SumLens(ledger, DOMAIN ledger)

\* The (faultName, source, testMethod) keys of a ledger.
LedgerKeys(ledger) ==
    UNION { { << n, KeyOf(ledger[n][i])[1], KeyOf(ledger[n][i])[2] >> :
                i \in 1..Len(ledger[n]) } : n \in DOMAIN ledger }

----------------------------------------------------------------------------
(* The detail dictionaries the scanners build.                             *)

\* Rule 1 of the structured scanner (lines 130-136).
InjectedDetails(source, path, message, details) ==
    [source |-> source, path |-> path, message |-> message, details |-> details,
     timestamp |-> Now]

\* Rule 2 of the structured scanner (lines 143-148).
ContextDetails(source, path, context) ==
    [source |-> source, path |-> path, context |-> context, timestamp |-> Now]

\* filename.replace('.py', ''): every occurrence of ".py" is removed.
RECURSIVE StripPy(_)
StripPy(filename) ==
    IF Len(filename) < 3 THEN filename
    ELSE IF SubSeq(filename, 1, 3) = ".py"
         THEN StripPy(SubSeq(filename, 4, Len(filename)))
         ELSE SubSeq(filename, 1, 1) \o StripPy(SubSeq(filename, 2, Len(filename)))

\* The direct-name and the marker-correlation heuristics (lines 185-190, 200-205).
\* test_method is None when the locator found no marker.
TextDetails(filename, test_method) ==
    [source |-> filename, test_class |-> StripPy(filename),
     test_method |-> IF test_method = None THEN "unknown" ELSE test_method,
     timestamp |-> Now]

\* The endpoint-proximity heuristic (lines 231-237).
ApiDetails(filename, test_method, path) ==
    [source |-> filename, test_class |-> StripPy(filename),
     test_method |-> IF test_method = None THEN "unknown" ELSE test_method,
     api_path |-> path, timestamp |-> Now]

----------------------------------------------------------------------------
(* generate_report.  The percentage is a float in the code; for the        *)
(* catalog's ten faults each value detected/10*100 and each 50*p/100 is    *)
(* computed without rounding error, so the model carries the percentage    *)
(* in tenths of a percent, the precision "{:.1f}" prints.                  *)

BAR_WIDTH == 50
DETAIL_LIMIT == 5

\* Python's truth value of a list.
Truthy(detections) == Len(detections) > 0

Repeat(ch, n) == [i \in 1..(IF n > 0 THEN n ELSE 0) |-> ch]

\* A plausible slip: the percentage itself is taken for the number of cells.
FilledCellsUnscaled(percentage, width) == percentage \div 10

\* int(width * percentage / 100), percentage in tenths of a percent.
FilledCells(percentage, width) == (width * percentage) \div 1000

\* generate_progress_bar (lines 270-274): the bar's cells and its label.
GenerateProgressBar(percentage, width) ==
    LET filled == FilledCells(percentage, width)
    IN [cells |-> Repeat("#", filled) \o Repeat("-", width - filled),
        label |-> percentage]

\* len([f for f in INJECTED_FAULTS if self.detected_faults.get(f['faultName'])])
RECURSIVE CountDetected(_, _)
CountDetected(ledger, i) ==
    IF i > Len(INJECTED_FAULTS) THEN 0
    ELSE (IF Truthy(LedgerGet(ledger, INJECTED_FAULTS[i].faultName)) THEN 1 ELSE 0)
         + CountDetected(ledger, i + 1)

\* A plausible slip: the counter counts ledger keys, catalogued or not.
DetectedCountOfKeys(ledger) == Cardinality(DOMAIN ledger)

DetectedCount(ledger) == CountDetected(ledger, 1)

\* (detected_count / total_faults * 100) if total_faults > 0 else 0, in tenths.
DetectionPercentage(detected_count, total_faults) ==
    IF total_faults > 0 THEN (detected_count * 1000) \div total_faults ELSE 0

Take(s, n) == IF Len(s) <= n THEN s ELSE SubSeq(s, 1, n)

\* The DETECTED FAULTS section (lines 318-352): one block per detected fault.
RECURSIVE DetectedBlocks(_, _, _)
DetectedBlocks(ledger, i, detected_fault_num) ==
    IF i > Len(INJECTED_FAULTS) THEN << >>
    ELSE LET fault == INJECTED_FAULTS[i]
             detections == LedgerGet(ledger, fault.faultName)
         IN IF Truthy(detections)
            THEN << [num |-> detected_fault_num + 1,
                     faultName |-> fault.faultName,
                     service |-> fault.service,
                     detections |-> Len(detections),
                     shown |-> Take(detections, DETAIL_LIMIT),
                     more |-> IF Len(detections) > DETAIL_LIMIT
                              THEN Len(detections) - DETAIL_LIMIT ELSE 0] >>
                 \o DetectedBlocks(ledger, i + 1, detected_fault_num + 1)
            ELSE DetectedBlocks(ledger, i + 1, detected_fault_num)

DetectedSection(ledger) == DetectedBlocks(ledger, 1, 0)

\* The UNDETECTED FAULTS section (lines 364-383).
RECURSIVE UndetectedBlocks(_, _, _)
UndetectedBlocks(ledger, i, undetected_fault_num) ==
    IF i > Len(INJECTED_FAULTS) THEN << >>
    ELSE LET fault == INJECTED_FAULTS[i]
             detections == LedgerGet(ledger, fault.faultName)
         IN IF ~Truthy(detections)
            THEN << [num |-> undetected_fault_num + 1,
                     faultName |-> fault.faultName,
                     service |-> fault.service,
                     status |-> "NOT DETECTED"] >>
                 \o UndetectedBlocks(ledger, i + 1, undetected_fault_num + 1)
            ELSE UndetectedBlocks(ledger, i + 1, undetected_fault_num)

\* A plausible slip: the undetected loop tests for at most one record.
RECURSIVE UndetectedBlocksUpToOne(_, _, _)
UndetectedBlocksUpToOne(ledger, i, undetected_fault_num) ==
    IF i > Len(INJECTED_FAULTS) THEN << >>
    ELSE LET fault == INJECTED_FAULTS[i]
             detections == LedgerGet(ledger, fault.faultName)
         IN IF Len(detections) <= 1
            THEN << [num |-> undetected_fault_num + 1,
                     faultName |-> fault.faultName,
                     service |-> fault.service,
                     status |-> "NOT DETECTED"] >>
                 \o UndetectedBlocksUpToOne(ledger, i + 1, undetected_fault_num + 1)
            ELSE UndetectedBlocksUpToOne(ledger, i + 1, undetected_fault_num)

UndetectedSectionUpToOne(ledger) == UndetectedBlocksUpToOne(ledger, 1, 0)

UndetectedSection(ledger) == UndetectedBlocks(ledger, 1, 0)

\* The rows of DETECTION STATISTICS (lines 397-402).
StatisticsRows(ledger) ==
    [i \in 1..Len(INJECTED_FAULTS) |->
        LET detections == LedgerGet(ledger, INJECTED_FAULTS[i].faultName)
        IN [faultName |-> INJECTED_FAULTS[i].faultName,
            status |-> IF Truthy(detections) THEN "DETECTED" ELSE "NOT DETECTED",
            count |-> Len(detections)]]

\* generate_report (lines 276-427): the report written to output_file.
GenerateReportText(ledger, cases) ==
    LET total_faults == Len(INJECTED_FAULTS)
        detected_count == DetectedCount(ledger)
        undetected_count == total_faults - detected_count
        detection_percentage == DetectionPercentage(detected_count, total_faults)
    IN [written |-> TRUE,
        total_test_cases |-> cases,
        total_faults |-> total_faults,
        detected_count |-> detected_count,
        undetected_count |-> undetected_count,
        detection_percentage |-> detection_percentage,
        undetection_percentage |-> 1000 - detection_percentage,
        progress_bar |-> GenerateProgressBar(detection_percentage, BAR_WIDTH),
        detected_section |-> DetectedSection(ledger),
        none_detected_note |-> (detected_count = 0),
        undetected_section |-> UndetectedSection(ledger),
        all_detected_note |-> (undetected_count = 0),
        statistics |-> StatisticsRows(ledger),
        total_row |-> [detected |-> detected_count, total |-> total_faults,
                       records |-> TotalRecords(ledger)]]

----------------------------------------------------------------------------
(* Artifact text.  A text is a sequence of tokens, each a literal piece of *)
(* text: a test-case definition marker, a fault name, an API path, one of  *)
(* the indicator literals, or filler of a given length that holds nothing  *)
(* the patterns look for.  len is the token's length in characters.        *)

Token(kind, text) == [kind |-> kind, text |-> text, len |-> Len(text)]

DefMarker(name) == Token("def", "def " \o name \o "(self):")
FaultNameText(fault_name) == Token("name", fault_name)
PathText(prefix) == Token("path", prefix)
Status400 == Token("lit", "400")
StatusZero == Token("status", "\"status\": 0")
InjectedFlag == Token("flag", "\"isInjected\": true")
FaultNameField(fault_name) == Token("field", "\"faultName\": \"" \o fault_name \o "\"")
Filler(n) == [kind |-> "filler", text |-> "", len |-> n]

\* The offset of token i of a text (of the end of the text for i = Len + 1).
RECURSIVE Offset(_, _)
Offset(content, i) ==
    IF i <= 1 THEN 0 ELSE Offset(content, i - 1) + content[i - 1].len

TextLen(content) == Offset(content, Len(content) + 1)

\* group(1) of r'def (test_\w+)\(self\):' on a marker token.
MethodName(token) == SubSeq(token.text, 5, token.len - 7)

\* The tokens r'def (test_\w+)\(self\):' matches in content[:offset]: the
\* markers that lie wholly in the prefix.
DefsBefore(content, offset) ==
    { i \in 1..Len(content) :
        /\ content[i].kind = "def"
        /\ Offset(content, i) + content[i].len <= offset }

Last(indexes) == CHOOSE i \in indexes : \A j \in indexes : j <= i
First(indexes) == CHOOSE i \in indexes : \A j \in indexes : i <= j

\* A plausible slip: test_defs[0] instead of test_defs[-1].
FindFirstTestMethod(content, offset) ==
    LET test_defs == DefsBefore(content, offset)
    IN IF test_defs # {} THEN MethodName(content[First(test_defs)]) ELSE None

\* _find_containing_test_method (lines 239-245).
FindContainingTestMethod(content, offset) ==
    LET test_defs == DefsBefore(content, offset)
    IN IF test_defs # {} THEN MethodName(content[Last(test_defs)]) ELSE None

----------------------------------------------------------------------------
(* _analyze_test_content: the three heuristics of the text scanner.        *)

WINDOW == 500

\* The fault name a "faultName" field token holds: group(1) of the marker pattern.
FieldName(token) == SubSeq(token.text, 15, token.len - 1)

\* Tokens that hold a quote character (at their first character).
HasQuote(token) == token.kind \in {"flag", "field", "status"}

\* re.finditer(re.escape(fault_name), content): where the name occurs, in order.
RECURSIVE NameStarts(_, _, _)
NameStarts(content, fault_name, i) ==
    IF i > Len(content) THEN << >>
    ELSE LET here == IF content[i].kind = "name" /\ content[i].text = fault_name
                     THEN << Offset(content, i) >>
                     ELSE IF content[i].kind = "field"
                             /\ FieldName(content[i]) = fault_name
                          THEN << Offset(content, i) + 14 >>
                          ELSE << >>
         IN here \o NameStarts(content, fault_name, i + 1)

\* The first token from index i on that satisfies a test (Len + 1: none).
RECURSIVE NextOfKind(_, _, _)
NextOfKind(content, kinds, i) ==
    IF i > Len(content) THEN Len(content) + 1
    ELSE IF content[i].kind \in kinds THEN i
    ELSE NextOfKind(content, kinds, i + 1)

\* The matches of the marker pattern (line 195): from an isInjected flag, lazily
\* and across lines, to the nearest "faultName" field after it; the search
\* goes on after the field.
RECURSIVE MarkerMatches(_, _)
MarkerMatches(content, i) ==
    LET a == NextOfKind(content, {"flag"}, i)
        b == NextOfKind(content, {"field"}, a + 1)
    IN IF a > Len(content) \/ b > Len(content) THEN << >>
       ELSE << [start |-> Offset(content, a), found_fault |-> FieldName(content[b])] >>
            \o MarkerMatches(content, b + 1)

\* re.finditer(path_pattern, content): the spans of the API path.  A path
\* without placeholder matches its literal text.  With '{tripId}' replaced by
\* [^"']+ a match runs on from the literal prefix to the next quote character or
\* the end of the text, needs one character there, and swallows what it covers.
RECURSIVE PathMatches(_, _, _)
PathMatches(content, api, i) ==
    IF i > Len(content) THEN << >>
    ELSE IF ~(content[i].kind = "path" /\ content[i].text = api.prefix)
    THEN PathMatches(content, api, i + 1)
    ELSE IF api.placeholder = ""
    THEN << [start |-> Offset(content, i),
             end |-> Offset(content, i) + content[i].len] >>
         \o PathMatches(content, api, i + 1)
    ELSE LET q == NextOfKind(content, {"flag", "field", "status"}, i + 1)
         IN IF Offset(content, q) > Offset(content, i) + content[i].len
            THEN << [start |-> Offset(content, i), end |-> Offset(content, q)] >>
                 \o PathMatches(content, api, q)
            ELSE PathMatches(content, api, i + 1)

\* Whether content[start:end] holds '400', 'status": 0', 'isInjected' or the
\* fault name (lines 224-225): the literal must lie wholly in the slice.
HasIndicator(content, start, end, fault_name) ==
    \E i \in 1..Len(content) :
        LET o == Offset(content, i)
            t == content[i]
            from == CASE t.kind = "lit" /\ t.text = "400" -> o
                      [] t.kind = "status" -> o + 1
                      [] t.kind = "flag" -> o + 1
                      [] t.kind = "name" /\ t.text = fault_name -> o
                      [] t.kind = "field" /\ FieldName(t) = fault_name -> o + 14
                      [] OTHER -> 0 - 1
            size == CASE t.kind = "lit" -> 3
                      [] t.kind \in {"status", "flag"} -> 10
                      [] OTHER -> Len(fault_name)
        IN from >= 0 /\ from >= start /\ from + size <= end

Max(a, b) == IF a >= b THEN a ELSE b
Min(a, b) == IF a <= b THEN a ELSE b

\* The direct-name heuristic (lines 179-190).
RECURSIVE DirectName(_, _, _, _, _, _)
DirectName(ledger, content, filename, fault_name, starts, k) ==
    IF k > Len(starts) THEN ledger
    ELSE LET test_method == FindContainingTestMethod(content, starts[k])
         IN DirectName(RecordDetection(ledger, fault_name,
                                       TextDetails(filename, test_method)),
                       content, filename, fault_name, starts, k + 1)

\* The marker-correlation heuristic (lines 193-205).
RECURSIVE MarkerCorrelation(_, _, _, _, _, _)
MarkerCorrelation(ledger, content, filename, fault_name, matches, k) ==
    IF k > Len(matches) THEN ledger
    ELSE IF matches[k].found_fault # fault_name
    THEN MarkerCorrelation(ledger, content, filename, fault_name, matches, k + 1)
    ELSE LET test_method == FindContainingTestMethod(content, matches[k].start)
         IN MarkerCorrelation(RecordDetection(ledger, fault_name,
                                              TextDetails(filename, test_method)),
                              content, filename, fault_name, matches, k + 1)

\* existing = [d for d in self.detected_faults.get(fault_name, [])
\*             if d.get('test_method') == test_method]; test_method may be None.
ExistingForMethod(ledger, fault_name, test_method) ==
    \E i \in 1..Len(LedgerGet(ledger, fault_name)) :
        Get(ledger[fault_name][i], "test_method") = test_method

\* A plausible slip: the window is taken after the occurrence only.
WindowStartAtMatch(match_start) == match_start

\* start = max(0, api_match.start() - 500)
WindowStart(match_start) == Max(0, match_start - WINDOW)

\* The endpoint-proximity heuristic for one api of a fault (lines 216-237).
RECURSIVE EndpointProximity(_, _, _, _, _, _, _)
EndpointProximity(ledger, content, filename, fault_name, api, api_matches, k) ==
    IF k > Len(api_matches) THEN ledger
    ELSE LET start == WindowStart(api_matches[k].start)
             end == Min(TextLen(content), api_matches[k].end + WINDOW)
             test_method == FindContainingTestMethod(content, api_matches[k].start)
             after ==
                IF /\ HasIndicator(content, start, end, fault_name)
                   /\ ~ExistingForMethod(ledger, fault_name, test_method)
                THEN RecordDetection(ledger, fault_name,
                                     ApiDetails(filename, test_method,
                                                api.prefix \o api.placeholder))
                ELSE ledger
         IN EndpointProximity(after, content, filename, fault_name, api,
                              api_matches, k + 1)

\* for api in fault['api'] (lines 208-237).
RECURSIVE EndpointLoop(_, _, _, _, _)
EndpointLoop(ledger, content, filename, fault, a) ==
    IF a > Len(fault.api) THEN ledger
    ELSE EndpointLoop(EndpointProximity(ledger, content, filename, fault.faultName,
                                        fault.api[a],
                                        PathMatches(content, fault.api[a], 1), 1),
                      content, filename, fault, a + 1)

HasFlag(content) == \E i \in 1..Len(content) : content[i].kind = "flag"

\* The body of 'for fault in INJECTED_FAULTS' (lines 175-237).
AnalyzeFault(ledger, content, filename, fault) ==
    LET direct == DirectName(ledger, content, filename, fault.faultName,
                             NameStarts(content, fault.faultName, 1), 1)
        marker == IF HasFlag(content)
                  THEN MarkerCorrelation(direct, content, filename, fault.faultName,
                                         MarkerMatches(content, 1), 1)
                  ELSE direct
    IN EndpointLoop(marker, content, filename, fault, 1)

\* for fault in INJECTED_FAULTS (line 175): the faults in catalog order, each on
\* the ledger the one before it left.
RECURSIVE AnalyzeFaults(_, _, _, _)
AnalyzeFaults(ledger, content, filename, f) ==
    IF f > Len(INJECTED_FAULTS) THEN ledger
    ELSE LET after == AnalyzeFault(ledger, content, filename, INJECTED_FAULTS[f])
         IN IF after = ledger
            THEN AnalyzeFaults(ledger, content, filename, f + 1)
            ELSE AnalyzeFaults(after, content, filename, f + 1)

\* _analyze_test_content (lines 169-237).
AnalyzeTestContent(ledger, content, filename) ==
    AnalyzeFaults(ledger, content, filename, 1)

\* len(re.findall(r'def test_\w+\(self\):', content)) (line 265).
CountMarkers(content) ==
    Cardinality({ i \in 1..Len(content) : content[i].kind = "def" })

StartsWith(s, prefix) ==
    Len(s) >= Len(prefix) /\ SubSeq(s, 1, Len(prefix)) = prefix

EndsWith(s, suffix) ==
    Len(s) >= Len(suffix) /\ SubSeq(s, Len(s) - Len(suffix) + 1, Len(s)) = suffix

\* Lines 160-161: the files the text scanner passes over.
Skipped(filename) == StartsWith(filename, "__") \/ filename = "em_test_utils.py"

\* glob("EvoMaster_*.py") of _count_test_cases (line 259).
Counted(filename) == StartsWith(filename, "EvoMaster_") /\ EndsWith(filename, ".py")

----------------------------------------------------------------------------
(* report.json as json.load returns it: dicts (their items in document     *)
(* order), lists, strings and booleans.                                    *)

JDict(items) == [kind |-> "dict", items |-> items]
JList(elems) == [kind |-> "list", elems |-> elems]
JStr(text) == [kind |-> "str", text |-> text]
JBool(flag) == [kind |-> "bool", flag |-> flag]
Item(key, value) == [key |-> key, value |-> value]

DictHas(obj, key) == \E i \in 1..Len(obj.items) : obj.items[i].key = key

DictValue(obj, key) ==
    obj.items[CHOOSE i \in 1..Len(obj.items) : obj.items[i].key = key].value

\* sub in value, for two strings.
Contains(value, sub) ==
    \E i \in 1..(Len(value) - Len(sub) + 1) : SubSeq(value, i, i + Len(sub) - 1) = sub

CONTEXT_LIMIT == 200

\* obj.get('isInjected') == True
IsInjected(obj) ==
    /\ DictHas(obj, "isInjected")
    /\ DictValue(obj, "isInjected").kind = "bool"
    /\ DictValue(obj, "isInjected").flag

\* Lists and dicts cannot be keys of self.detected_faults: TypeError.
Hashable(node) == node.kind \notin {"list", "dict"}

\* The ledger key a hashable faultName value gives (a bool is its own key,
\* which equals no string).
KeyName(node) == IF node.kind = "str" THEN node.text ELSE ToString(node.flag)

\* obj.get(key, '') as the details carry it.
FieldText(obj, key) ==
    IF ~DictHas(obj, key) THEN ""
    ELSE IF DictValue(obj, key).kind = "str" THEN DictValue(obj, key).text
    ELSE "<" \o DictValue(obj, key).kind \o ">"

KeyPath(path, key) == IF path = "" THEN key ELSE path \o "." \o key
IndexPath(path, i) == path \o "[" \o ToString(i) \o "]"

\* Rule 2 on one string value (lines 141-148): for fault in INJECTED_FAULTS.
RECURSIVE RecordContained(_, _, _, _, _)
RecordContained(ledger, value, source, path, f) ==
    IF f > Len(INJECTED_FAULTS) THEN ledger
    ELSE LET fault_name == INJECTED_FAULTS[f].faultName
             after == IF Contains(value, fault_name)
                      THEN RecordDetection(ledger, fault_name,
                               ContextDetails(source, path,
                                   SubSeq(value, 1, Min(Len(value), CONTEXT_LIMIT))))
                      ELSE ledger
         IN RecordContained(after, value, source, path, f + 1)

\* Rule 1 (lines 128-136) on a dict; raised: the call ended in a TypeError.
InjectedRule(st, obj, source, path) ==
    IF ~IsInjected(obj) THEN st
    ELSE IF DictHas(obj, "faultName") /\ ~Hashable(DictValue(obj, "faultName"))
    THEN [st EXCEPT !.raised = TRUE]
    ELSE LET fault_name == IF DictHas(obj, "faultName")
                           THEN KeyName(DictValue(obj, "faultName"))
                           ELSE UNKNOWN
         IN [st EXCEPT !.ledger =
                RecordDetection(st.ledger, fault_name,
                    InjectedDetails(source, path, FieldText(obj, "message"),
                                    FieldText(obj, "details")))]

\* _search_json_for_faults (lines 124-153).  st is the ledger and whether an
\* exception is on its way up; once raised, nothing more runs.
RECURSIVE SearchJsonForFaults(_, _, _, _)
RECURSIVE SearchItems(_, _, _, _, _)
RECURSIVE SearchElems(_, _, _, _, _)

\* A plausible slip: the string values of a dict are looked at before its
\* isInjected flag.
SearchStringsFirst(st, obj, source, path) ==
    IF st.raised THEN st
    ELSE IF obj.kind = "dict"
         THEN InjectedRule(SearchItems(st, obj, source, path, 1), obj, source, path)
    ELSE IF obj.kind = "list" THEN SearchElems(st, obj, source, path, 1)
    ELSE st

SearchJsonForFaults(st, obj, source, path) ==
    IF st.raised THEN st
    ELSE IF obj.kind = "dict"
         THEN SearchItems(InjectedRule(st, obj, source, path), obj, source, path, 1)
    ELSE IF obj.kind = "list" THEN SearchElems(st, obj, source, path, 1)
    ELSE st

\* for key, value in obj.items() (lines 139-150).
SearchItems(st, obj, source, path, i) ==
    IF st.raised \/ i > Len(obj.items) THEN st
    ELSE LET key == obj.items[i].key
             value == obj.items[i].value
             after == IF value.kind = "str"
                      THEN [st EXCEPT !.ledger =
                              RecordContained(st.ledger, value.text, source,
                                              KeyPath(path, key), 1)]
                      ELSE SearchJsonForFaults(st, value, source, KeyPath(path, key))
         IN SearchItems(after, obj, source, path, i + 1)

\* for i, item in enumerate(obj) (lines 151-153).
SearchElems(st, obj, source, path, i) ==
    IF st.raised \/ i > Len(obj.elems) THEN st
    ELSE SearchElems(SearchJsonForFaults(st, obj.elems[i], source,
                                         IndexPath(path, i - 1)),
                     obj, source, path, i + 1)

\* A plausible slip: the scan is started for a dict at the top only and does
\* not descend into lists.
AnalyzeReportJsonFlat(ledger, file) ==
    IF file.status = "parsed" /\ file.data.kind = "dict"
    THEN InjectedRule([ledger |-> ledger, raised |-> FALSE], file.data,
                      REPORT_JSON, "").ledger
    ELSE ledger

\* _analyze_report_json (lines 105-122): a missing file returns at once, a file
\* json.load cannot parse and a TypeError of the search end in the except
\* clause; what was recorded before the exception stays.
AnalyzeReportJson(ledger, file) ==
    IF file.status = "missing" THEN ledger
    ELSE IF file.status = "malformed" THEN ledger
    ELSE IF file.data.kind = "dict"
         THEN SearchJsonForFaults([ledger |-> ledger, raised |-> FALSE], file.data,
                                  REPORT_JSON, "").ledger
    ELSE ledger

----------------------------------------------------------------------------
(* Bounds of the model.                                                    *)

MaxRecords == 3     \* records a ledger of SpecLedger may hold
MaxExtra == 5       \* text records added to a ledger drawn for SpecReport
MaxTokens == 4      \* tokens of a drawn artifact text
MaxFields == 2      \* items of a drawn event dict of report.json
MaxDepth == 2       \* containers wrapped around an event of report.json
GapLen == 600       \* characters of filler that separate two pieces of text

----------------------------------------------------------------------------
(* The parts of the state a component harness does not use.                *)

NoReportJson == [status |-> "missing"]
NoArtifacts == [f \in {} |-> 0]

IdleProcess ==
    /\ run = 1
    /\ folder_exists = TRUE
    /\ listing = << >>
    /\ pending = << >>
    /\ total_test_cases = 0
    /\ report = NoReport
    /\ exit_code = Running
    /\ trace = << >>
    /\ first_keys = {}

IdleLocator == position = 0 /\ located = None

----------------------------------------------------------------------------
(* main(): one action per step of main() and analyze(), one per file of    *)
(* the loop of _analyze_test_files, and a second invocation of the program *)
(* on the same folder.                                                     *)

RECURSIVE SumCounted(_, _)
SumCounted(files, names) ==
    IF names = {} THEN 0
    ELSE LET f == CHOOSE x \in names : TRUE
         IN (IF Counted(f) /\ files[f].readable THEN CountMarkers(files[f].content)
             ELSE 0)
            + SumCounted(files, names \ {f})

\* _count_test_cases (lines 257-268): a file that cannot be read is passed over.
CountTestCases(files) == SumCounted(files, DOMAIN files)

\* A plausible slip: main goes on although the folder is missing.
CheckFolderGoesOn ==
    /\ pc = "main"
    /\ pc' = "report_json"
    /\ detected_faults' = EmptyLedger
    /\ total_test_cases' = 0
    /\ UNCHANGED <<run, inputs, pending, report, exit_code, trace, first_keys,
                   position, located, call>>

\* Lines 443-448: sys.exit(1) when the folder is missing, else the analyzer is
\* constructed.
CheckFolder ==
    /\ pc = "main"
    /\ IF ~folder_exists
       THEN /\ pc' = "done"
            /\ exit_code' = << 1 >>
            /\ trace' = Append(trace, "exit 1")
            /\ UNCHANGED <<detected_faults, total_test_cases>>
       ELSE /\ pc' = "report_json"
            /\ detected_faults' = EmptyLedger
            /\ total_test_cases' = 0
            /\ UNCHANGED <<exit_code, trace>>
    /\ UNCHANGED <<run, inputs, pending, report, first_keys, position, located, call>>

\* A plausible slip: the loop over the listed files begins at the second one.
StructuredScanThenTail ==
    /\ pc = "report_json"
    /\ detected_faults' = AnalyzeReportJson(detected_faults, report_json)
    /\ pending' = IF listing[run] = << >> THEN << >> ELSE Tail(listing[run])
    /\ pc' = "test_files"
    /\ trace' = Append(trace, "structured scan")
    /\ UNCHANGED <<run, inputs, total_test_cases, report, exit_code, first_keys,
                   position, located, call>>

\* self._analyze_report_json() (line 101), then the glob of line 157.
StructuredScan ==
    /\ pc = "report_json"
    /\ detected_faults' = AnalyzeReportJson(detected_faults, report_json)
    /\ pending' = listing[run]
    /\ pc' = "test_files"
    /\ trace' = Append(trace, "structured scan")
    /\ UNCHANGED <<run, inputs, total_test_cases, report, exit_code, first_keys,
                   position, located, call>>

\* What one turn of the loop of _analyze_test_files does to the ledger
\* (lines 160-167).
ScanOne(ledger, files, filename) ==
    IF Skipped(filename) THEN ledger
    ELSE IF ~files[filename].readable THEN ledger
    ELSE AnalyzeTestContent(ledger, files[filename].content, filename)

\* A plausible slip: a file that cannot be read ends the loop.
ScanFileOrStop ==
    /\ pc = "test_files"
    /\ pending # << >>
    /\ detected_faults' = ScanOne(detected_faults, artifacts, Head(pending))
    /\ pending' = IF ~Skipped(Head(pending)) /\ ~artifacts[Head(pending)].readable
                  THEN << >> ELSE Tail(pending)
    /\ UNCHANGED <<pc, run, inputs, total_test_cases, report, exit_code, trace,
                   first_keys, position, located, call>>

\* A plausible slip: the files are taken in an order of the scanner's own.
ScanFileAnyOrder ==
    /\ pc = "test_files"
    /\ pending # << >>
    /\ \E k \in 1..Len(pending) :
         /\ detected_faults' = ScanOne(detected_faults, artifacts, pending[k])
         /\ pending' = [i \in 1..(Len(pending) - 1) |->
                          IF i < k THEN pending[i] ELSE pending[i + 1]]
    /\ UNCHANGED <<pc, run, inputs, total_test_cases, report, exit_code, trace,
                   first_keys, position, located, call>>

\* One turn of 'for test_file in test_files' (lines 159-167).
ScanFile ==
    /\ pc = "test_files"
    /\ pending # << >>
    /\ detected_faults' = ScanOne(detected_faults, artifacts, Head(pending))
    /\ pending' = Tail(pending)
    /\ UNCHANGED <<pc, run, inputs, total_test_cases, report, exit_code, trace,
                   first_keys, position, located, call>>

\* The loop of _analyze_test_files is over.
TextScanDone ==
    /\ pc = "test_files"
    /\ pending = << >>
    /\ pc' = "count"
    /\ trace' = Append(trace, "text scan")
    /\ UNCHANGED <<run, inputs, pending, detected_faults, total_test_cases, report,
                   exit_code, first_keys, position, located, call>>

\* self._count_test_cases() (line 103).
CountCases ==
    /\ pc = "count"
    /\ total_test_cases' = total_test_cases + CountTestCases(artifacts)
    /\ pc' = "generate_report"
    /\ trace' = Append(trace, "case count")
    /\ UNCHANGED <<run, inputs, pending, detected_faults, report, exit_code,
                   first_keys, position, located, call>>

\* A plausible slip: the report reads self.detected_faults[fault_name], which
\* makes a key with an empty list for every catalog fault that has none.
WriteReportIndexing ==
    /\ pc = "generate_report"
    /\ report' = GenerateReportText(detected_faults, total_test_cases)
    /\ detected_faults' = [n \in DOMAIN detected_faults \cup CatalogNames |->
                             LedgerGet(detected_faults, n)]
    /\ pc' = "summary"
    /\ trace' = Append(trace, "report write")
    /\ UNCHANGED <<run, inputs, pending, total_test_cases,
                   exit_code, first_keys, position, located, call>>

\* analyzer.generate_report(output_file) (line 450).
WriteReport ==
    /\ pc = "generate_report"
    /\ report' = GenerateReportText(detected_faults, total_test_cases)
    /\ pc' = "summary"
    /\ trace' = Append(trace, "report write")
    /\ UNCHANGED <<run, inputs, pending, detected_faults, total_test_cases,
                   exit_code, first_keys, position, located, call>>

\* Lines 452-462: the final summary, return 0, sys.exit(0).
ExitZero ==
    /\ pc = "summary"
    /\ exit_code' = << 0 >>
    /\ pc' = "done"
    /\ trace' = Append(trace, "exit 0")
    /\ UNCHANGED <<run, inputs, pending, detected_faults, total_test_cases, report,
                   first_keys, position, located, call>>

\* The program is started again on the unchanged folder: a new process, a new
\* analyzer, a new output file.
Rerun ==
    /\ pc = "done"
    /\ run < Len(listing)
    /\ run' = run + 1
    /\ first_keys' = LedgerKeys(detected_faults)
    /\ pc' = "main"
    /\ detected_faults' = EmptyLedger
    /\ total_test_cases' = 0
    /\ report' = NoReport
    /\ exit_code' = Running
    /\ trace' = << >>
    /\ pending' = << >>
    /\ UNCHANGED <<inputs, position, located, call>>

NextOnce ==
    \/ CheckFolder
    \/ StructuredScan
    \/ ScanFile
    \/ TextScanDone
    \/ CountCases
    \/ WriteReport
    \/ ExitZero

Next == NextOnce \/ Rerun

\* The orders in which a set of files can be listed.
Orderings(names) ==
    { o \in [1..Cardinality(names) -> names] :
        \A i, j \in 1..Cardinality(names) : o[i] = o[j] => i = j }

StartOfMain ==
    /\ pc = "main"
    /\ run = 1
    /\ pending = << >>
    /\ detected_faults = EmptyLedger
    /\ total_test_cases = 0
    /\ report = NoReport
    /\ exit_code = Running
    /\ trace = << >>
    /\ first_keys = {}
    /\ call = NoCall
    /\ IdleLocator

Readable(content) == [readable |-> TRUE, content |-> content]
Unreadable(content) == [readable |-> FALSE, content |-> content]

\* An event of report.json that marks a fault as injected.
InjectedEvent(fault_name) ==
    JDict(<< Item("isInjected", JBool(TRUE)), Item("faultName", JStr(fault_name)) >>)

Parsed(data) == [status |-> "parsed", data |-> data]

----------------------------------------------------------------------------
(* Spec: main() on a folder that may be missing, with report.json missing, *)
(* unparsable or parsed, two generated files that may be unreadable and    *)
(* the helper module, listed in any order; then a second invocation.       *)

MainReports ==
    { [status |-> "missing"], [status |-> "malformed"],
      Parsed(JDict(<< Item("events",
                           JList(<< InjectedEvent(INJECTED_FAULTS[9].faultName) >>)) >>)) }

MainTexts ==
    { << DefMarker("test_0"), PathText(AdminOrderApi[1].prefix), Status400 >>,
      << DefMarker("test_0"), FaultNameText(INJECTED_FAULTS[1].faultName),
         DefMarker("test_1"), InjectedFlag,
         FaultNameField(INJECTED_FAULTS[9].faultName) >> }

MainFiles == { "EvoMaster_a.py", "EvoMaster_b.py", "em_test_utils.py" }

MainArtifacts ==
    { [f \in MainFiles |->
         IF f = "EvoMaster_a.py" THEN a
         ELSE IF f = "EvoMaster_b.py" THEN b
         ELSE Readable(<< DefMarker("test_9"),
                          FaultNameText(INJECTED_FAULTS[3].faultName) >>)] :
        a \in { Readable(t) : t \in MainTexts } \cup { Unreadable(t) : t \in MainTexts },
        b \in { Readable(t) : t \in MainTexts } \cup { Unreadable(t) : t \in MainTexts } }

Init ==
    /\ StartOfMain
    /\ folder_exists \in BOOLEAN
    /\ IF folder_exists
       THEN /\ report_json \in MainReports
            /\ artifacts \in MainArtifacts
            /\ listing \in [1..2 -> Orderings(MainFiles)]
       ELSE /\ report_json = NoReportJson
            /\ artifacts = NoArtifacts
            /\ listing = << << >>, << >> >>

Spec == Init /\ [][Next]_vars

----------------------------------------------------------------------------
(* SpecLedger: the ledger under any sequence of _record_detection calls,   *)
(* with the arguments the two scanners build, and then generate_report.    *)

RecordNames == { INJECTED_FAULTS[1].faultName, UNKNOWN }

RecordInputs ==
    { InjectedDetails(REPORT_JSON, "events[0]", "", ""),
      ContextDetails(REPORT_JSON, "events[0].message", "INVALID_CONTACTS_NAME_FAULT"),
      TextDetails("EvoMaster_a.py", None),
      TextDetails("EvoMaster_a.py", "test_0"),
      TextDetails("EvoMaster_b.py", "test_0"),
      ApiDetails("EvoMaster_a.py", "test_0", "/api/v1/adminorderservice/adminorder") }

InitLedger ==
    /\ IdleProcess
    /\ pc = "analyze"
    /\ detected_faults = EmptyLedger
    /\ report_json = NoReportJson
    /\ artifacts = NoArtifacts
    /\ call = NoCall
    /\ IdleLocator

\* One call of _record_detection by a scanner.
Record(fault_name, details) ==
    /\ pc = "analyze"
    /\ TotalRecords(detected_faults) < MaxRecords
    /\ detected_faults' = RecordDetection(detected_faults, fault_name, details)
    /\ call' = [made |-> TRUE, fault_name |-> fault_name, details |-> details]
    /\ UNCHANGED <<pc, run, inputs, pending, total_test_cases, report, exit_code,
                   trace, first_keys, position, located>>

\* generate_report on the ledger the scanners left.
Render ==
    /\ pc \in {"analyze", "render"}
    /\ report' = GenerateReportText(detected_faults, total_test_cases)
    /\ pc' = "rendered"
    /\ UNCHANGED <<run, inputs, pending, detected_faults, total_test_cases,
                   exit_code, trace, first_keys, position, located, call>>

NextLedger ==
    \/ \E fault_name \in RecordNames, details \in RecordInputs :
            Record(fault_name, details)
    \/ Render

SpecLedger == InitLedger /\ [][NextLedger]_vars

----------------------------------------------------------------------------
(* SpecReport: generate_report on ledgers the scanners can leave: any set  *)
(* of names holding one structured record each, and up to MaxExtra text    *)
(* records more under the first catalog fault.                             *)

RECURSIVE WithExtra(_, _)
WithExtra(ledger, k) ==
    IF k = 0 THEN ledger
    ELSE RecordDetection(WithExtra(ledger, k - 1), INJECTED_FAULTS[1].faultName,
                         TextDetails("EvoMaster_a.py", "test_" \o ToString(k - 1)))

StructuredLedger(names) ==
    [n \in names |-> << InjectedDetails(REPORT_JSON, "events", "", "") >>]

ReportLedgers ==
    { WithExtra(StructuredLedger(names), k) :
        names \in SUBSET (CatalogNames \cup {UNKNOWN}), k \in 0..MaxExtra }

InitReport ==
    /\ IdleProcess
    /\ pc = "render"
    /\ detected_faults \in ReportLedgers
    /\ report_json = NoReportJson
    /\ artifacts = NoArtifacts
    /\ call = NoCall
    /\ IdleLocator

NextReport == Render

SpecReport == InitReport /\ [][NextReport]_vars

----------------------------------------------------------------------------
(* Claims about the ledger.                                                *)

KeyCount(ledger, fault_name, key) ==
    Cardinality({ i \in 1..Len(LedgerGet(ledger, fault_name)) :
                    KeyOf(ledger[fault_name][i]) = key })

\* C1: under no fault name do two records of the ledger have the same
\* (source, test_method) pair, an absent test_method being one value; so a
\* second insertion of the same faultName, source and testMethod leaves one record.
C1_DedupInvariant ==
    \A n \in DOMAIN detected_faults :
        \A i, j \in 1..Len(detected_faults[n]) :
            KeyOf(detected_faults[n][i]) = KeyOf(detected_faults[n][j]) => i = j

\* The latest call found a record with its key already stored, from a scanner
\* of the other kind of content, and one record with that key is stored.
C1_Witness ==
    /\ call.made
    /\ KeyCount(detected_faults, call.fault_name, KeyOf(call.details)) = 1
    /\ \E i \in 1..Len(detected_faults[call.fault_name]) :
          /\ KeyOf(detected_faults[call.fault_name][i]) = KeyOf(call.details)
          /\ detected_faults[call.fault_name][i] # call.details

\* C2: a call of _record_detection either changes nothing (a record with the
\* same (source, test_method) is stored under the fault name) or appends its
\* details to that name's sequence; the other names' sequences stay as they are.
C2_Step ==
    (call' # call \/ detected_faults' # detected_faults) =>
        LET f == call'.fault_name
            d == call'.details
            old == LedgerGet(detected_faults, f)
        IN /\ call'.made
           /\ IF \E i \in 1..Len(old) : KeyOf(old[i]) = KeyOf(d)
              THEN detected_faults' = detected_faults
              ELSE /\ DOMAIN detected_faults' = DOMAIN detected_faults \cup {f}
                   /\ detected_faults'[f] = old \o << d >>
                   /\ \A n \in DOMAIN detected_faults \ {f} :
                         detected_faults'[n] = detected_faults[n]

C2_NoOpOrAppend == [][C2_Step]_vars

\* A call appended to a name that already held a record while another name
\* held records too.
C2_Witness ==
    /\ call.made
    /\ Len(LedgerGet(detected_faults, call.fault_name)) >= 2
    /\ detected_faults[call.fault_name][Len(detected_faults[call.fault_name])]
         = call.details
    /\ Cardinality(DOMAIN detected_faults) >= 2

----------------------------------------------------------------------------
(* Claims about the report.                                                *)

CatalogIndex(name) == CHOOSE i \in 1..Len(INJECTED_FAULTS) : INJECTED_FAULTS[i].faultName = name

InCatalogOrder(blocks) ==
    \A i, j \in 1..Len(blocks) :
        i < j => CatalogIndex(blocks[i].faultName) < CatalogIndex(blocks[j].faultName)

Occurrences(blocks, name) ==
    Cardinality({ i \in 1..Len(blocks) : blocks[i].faultName = name })

\* C3: the report lists every catalog fault once in DETECTION STATISTICS and once
\* in exactly one of DETECTED FAULTS and UNDETECTED FAULTS (detected iff the
\* ledger holds a record for it), each section in catalog order.
C3_ReportListsCatalog ==
    report.written =>
        /\ \A n \in CatalogNames :
              /\ Occurrences(report.statistics, n) = 1
              /\ Occurrences(report.detected_section, n)
                   = (IF LedgerGet(detected_faults, n) # << >> THEN 1 ELSE 0)
              /\ Occurrences(report.undetected_section, n)
                   = (IF LedgerGet(detected_faults, n) # << >> THEN 0 ELSE 1)
        /\ \A i \in 1..Len(report.statistics) :
              report.statistics[i].faultName = INJECTED_FAULTS[i].faultName
        /\ Len(report.statistics) = Len(INJECTED_FAULTS)
        /\ \A i \in 1..Len(report.detected_section) :
              report.detected_section[i].faultName \in CatalogNames
        /\ \A i \in 1..Len(report.undetected_section) :
              report.undetected_section[i].faultName \in CatalogNames
        /\ InCatalogOrder(report.detected_section)
        /\ InCatalogOrder(report.undetected_section)

\* A report with faults in both detail sections, one of them holding several
\* records, rendered from a ledger that also holds an uncatalogued name.
C3_Witness ==
    /\ report.written
    /\ Len(report.detected_section) >= 2
    /\ Len(report.undetected_section) >= 2
    /\ UNKNOWN \in DOMAIN detected_faults
    /\ \E i \in 1..Len(report.detected_section) :
          report.detected_section[i].detections >= 2

FilledCount(cells) == Cardinality({ i \in 1..Len(cells) : cells[i] = "#" })

\* C4: detected count = catalog faults with a ledger record, undetected = total -
\* detected, percentage = detected/total*100, the bar has 50 cells of which
\* floor(percentage/2) are filled; 3 of 10 gives 30.0 and 15 filled cells.
C4_SummaryStatistics ==
    report.written =>
        LET bar == report.progress_bar.cells
            detected == Cardinality({ n \in CatalogNames :
                                        LedgerGet(detected_faults, n) # << >> })
        IN /\ report.total_faults = Len(INJECTED_FAULTS)
           /\ report.detected_count = detected
           /\ report.undetected_count = report.total_faults - detected
           /\ report.detection_percentage * report.total_faults = detected * 1000
           /\ Len(bar) = 50
           /\ FilledCount(bar) = report.detection_percentage \div 20
           /\ \A i \in 1..Len(bar) : bar[i] = "#" <=> i <= FilledCount(bar)
           /\ (report.total_faults = 10 /\ detected = 3) =>
                 (report.detection_percentage = 300 /\ FilledCount(bar) = 15)

\* A report for 3 detected faults of 10, from a ledger with an uncatalogued name.
C4_Witness ==
    /\ report.written
    /\ report.total_faults = 10
    /\ report.detected_count = 3
    /\ UNKNOWN \in DOMAIN detected_faults
    /\ FilledCount(report.progress_bar.cells) = 15

----------------------------------------------------------------------------
(* SpecLocator: _find_containing_test_method on every text of up to        *)
(* MaxTokens markers and fillers and on every offset into it.              *)

RECURSIVE TextsOver(_, _)
TextsOver(alphabet, n) ==
    IF n = 0 THEN { << >> }
    ELSE LET shorter == TextsOver(alphabet, n - 1)
         IN shorter \cup { Append(t, a) : t \in shorter, a \in alphabet }

LocatorAlphabet == { DefMarker("test_0"), DefMarker("test_1"), Status400 }

LocatorFile == "EvoMaster_a.py"

InitLocator ==
    /\ IdleProcess
    /\ pc = "locate"
    /\ \E content \in TextsOver(LocatorAlphabet, MaxTokens) :
         artifacts = [f \in {LocatorFile} |-> [readable |-> TRUE, content |-> content]]
    /\ position \in 0..TextLen(artifacts[LocatorFile].content)
    /\ located = None
    /\ detected_faults = EmptyLedger
    /\ report_json = NoReportJson
    /\ call = NoCall

Locate ==
    /\ pc = "locate"
    /\ located' = FindContainingTestMethod(artifacts[LocatorFile].content, position)
    /\ pc' = "located"
    /\ UNCHANGED <<run, inputs, pending, detected_faults, total_test_cases, report,
                   exit_code, trace, first_keys, position, call>>

NextLocator == Locate

SpecLocator == InitLocator /\ [][NextLocator]_vars

\* The markers of a text that begin at or before an offset, and those that end
\* at or before it.
MarkersStartingBy(content, offset) ==
    { i \in 1..Len(content) :
        content[i].kind = "def" /\ Offset(content, i) <= offset }

MarkersEndingBy(content, offset) ==
    { i \in 1..Len(content) :
        content[i].kind = "def" /\ Offset(content, i) + content[i].len <= offset }

NameOfLast(content, markers) ==
    IF markers = {} THEN None
    ELSE SubSeq(content[Last(markers)].text, 5, content[Last(markers)].len - 7)

\* C10 as stated: the locator returns the name of the last marker that occurs
\* (begins) at or before the offset, none when there is none, and leaves the
\* ledger alone.
C10_AtOrBefore ==
    pc = "located" =>
        /\ located = NameOfLast(artifacts[LocatorFile].content,
                                MarkersStartingBy(artifacts[LocatorFile].content, position))
        /\ detected_faults = EmptyLedger

\* C10 amended: the locator returns the name of the last marker that lies wholly
\* before the offset (ends at or before it), none when there is none, and leaves
\* the ledger alone.
C10_WhollyBefore ==
    pc = "located" =>
        /\ located = NameOfLast(artifacts[LocatorFile].content,
                                MarkersEndingBy(artifacts[LocatorFile].content, position))
        /\ detected_faults = EmptyLedger

\* Two markers precede the offset, a third begins at it, and the locator has
\* answered with the second.
C10_Witness ==
    /\ pc = "located"
    /\ located = "test_1"
    /\ Cardinality(MarkersEndingBy(artifacts[LocatorFile].content, position)) = 2
    /\ Cardinality(MarkersStartingBy(artifacts[LocatorFile].content, position)) = 3

----------------------------------------------------------------------------
(* SpecText: one invocation on a folder of two readable generated files,   *)
(* the first with any text of up to MaxTokens pieces, listed in either     *)
(* order, with report.json missing or marking the first fault.             *)

TextAlphabet ==
    { DefMarker("test_0"), PathText(AdminOrderApi[1].prefix), Status400,
      Filler(GapLen), FaultNameText(INJECTED_FAULTS[1].faultName) }

OtherTexts ==
    { << >>,
      << DefMarker("test_0"), PathText(AdminOrderApi[1].prefix), Status400 >>,
      << DefMarker("test_0"), FaultNameText(INJECTED_FAULTS[1].faultName) >>,
      << FaultNameText(INJECTED_FAULTS[1].faultName) >> }

TextFiles == { "EvoMaster_a.py", "EvoMaster_b.py" }

InitText ==
    /\ StartOfMain
    /\ folder_exists = TRUE
    /\ report_json \in
         { NoReportJson,
           Parsed(JDict(<< Item("event", InjectedEvent(INJECTED_FAULTS[1].faultName)) >>)) }
    /\ \E a \in TextsOver(TextAlphabet, MaxTokens), b \in OtherTexts :
         artifacts = [f \in TextFiles |->
                        IF f = "EvoMaster_a.py" THEN Readable(a) ELSE Readable(b)]
    /\ listing \in [1..1 -> Orderings(TextFiles)]

SpecText == InitText /\ [][NextOnce]_vars

----------------------------------------------------------------------------
(* SpecJson: one invocation on a folder whose report.json is any document  *)
(* built from an event dict of up to MaxFields items under up to MaxDepth  *)
(* dicts and lists, beside one generated file.                             *)

EventItems ==
    { Item("isInjected", v) : v \in { JBool(TRUE), JBool(FALSE) } }
    \cup { Item("faultName", v) :
             v \in { JStr(INJECTED_FAULTS[9].faultName), JList(<< >>) } }
    \cup { Item("message", v) :
             v \in { JStr("caught " \o INJECTED_FAULTS[3].faultName), JStr("ok") } }

RECURSIVE ItemSeqs(_)
ItemSeqs(n) ==
    IF n = 0 THEN { << >> }
    ELSE LET shorter == ItemSeqs(n - 1)
         IN shorter \cup
            { Append(s, it) : s \in shorter,
                              it \in EventItems }

DistinctKeys(items) ==
    \A i, j \in 1..Len(items) : items[i].key = items[j].key => i = j

Events == { JDict(s) : s \in { t \in ItemSeqs(MaxFields) : DistinctKeys(t) } }

\* What may stand in a list before a node.
Siblings ==
    { JStr(INJECTED_FAULTS[5].faultName),
      JDict(<< Item("isInjected", JBool(TRUE)), Item("faultName", JList(<< >>)) >>),
      JDict(<< Item("note", JStr(INJECTED_FAULTS[9].faultName)) >>) }

Wrapped(node) ==
    { JList(<< node >>), JDict(<< Item("data", node) >>) }
    \cup { JList(<< sib, node >>) : sib \in Siblings }

RECURSIVE Documents(_)
Documents(depth) ==
    IF depth = 0 THEN Events \cup { JStr(INJECTED_FAULTS[9].faultName), JBool(TRUE) }
    ELSE LET inner == Documents(depth - 1)
         IN inner \cup UNION { Wrapped(node) : node \in inner }

JsonFile == "EvoMaster_a.py"

InitJson ==
    /\ StartOfMain
    /\ folder_exists = TRUE
    /\ report_json \in
         { [status |-> "missing"], [status |-> "malformed"] }
         \cup { Parsed(data) : data \in Documents(MaxDepth) }
    /\ artifacts = [f \in {JsonFile} |->
                      Readable(<< DefMarker("test_0"),
                                  FaultNameText(INJECTED_FAULTS[9].faultName) >>)]
    /\ listing = << << JsonFile >> >>

SpecJson == InitJson /\ [][NextOnce]_vars

----------------------------------------------------------------------------
(* Claims about main(), checked under Spec.                                *)

FullTrace ==
    << "structured scan", "text scan", "case count", "report write", "exit 0" >>

IsPrefix(s, t) == Len(s) <= Len(t) /\ s = SubSeq(t, 1, Len(s))

Position(s, e) == CHOOSE i \in 1..Len(s) : s[i] = e

\* C7: when the target folder is missing, main ends with a non-zero exit code
\* and no other event: no scanner has run and no report is written.  In every
\* other run the events come in the order structured scan, text scan, case
\* count, report write, exit code 0, the report is written exactly at the
\* report write, and the run ends with all five events and exit code 0.
C7_FatalFirstThenOrder ==
    /\ ~folder_exists =>
          /\ trace \in { << >>, << "exit 1" >> }
          /\ report = NoReport
          /\ detected_faults = EmptyLedger
          /\ pc = "done" => (trace = << "exit 1" >> /\ exit_code = << 1 >>)
    /\ folder_exists =>
          /\ IsPrefix(trace, FullTrace)
          /\ report.written <=> Len(trace) >= Position(FullTrace, "report write")
          /\ pc = "done" => (trace = FullTrace /\ exit_code = << 0 >>)

\* The second invocation on a missing folder has ended.
C7_Witness ==
    /\ ~folder_exists
    /\ run = 2
    /\ pc = "done"
    /\ exit_code = << 1 >>

Failing(files) == { f \in DOMAIN files : ~Skipped(f) /\ ~files[f].readable }

Sources(ledger) == { k[2] : k \in LedgerKeys(ledger) }

RECURSIVE ScanAll(_, _, _)
ScanAll(ledger, files, names) ==
    IF names = << >> THEN ledger
    ELSE ScanAll(ScanOne(ledger, files, Head(names)), files, Tail(names))

WithoutFailing(files, names) == SelectSeq(names, LAMBDA f : f \notin Failing(files))

AsIfAbsent(file) == IF file.status = "malformed" THEN [status |-> "missing"] ELSE file

\* C9: a run in which report.json fails to parse or a generated file cannot be
\* read ends with exit code 0 and a written report; the ledger holds no record
\* whose source is the unparsable report.json or an unreadable file; the ledger
\* is the one the run would have built had the failing inputs been absent (so
\* every other file was scanned); and the case count is the count over the files
\* that could be read.
C9_FailuresIsolated ==
    (/\ pc = "done"
     /\ folder_exists
     /\ (report_json.status = "malformed" \/ Failing(artifacts) # {})) =>
        /\ exit_code = << 0 >>
        /\ report.written
        /\ report_json.status = "malformed" => REPORT_JSON \notin Sources(detected_faults)
        /\ Failing(artifacts) \cap Sources(detected_faults) = {}
        /\ detected_faults =
              ScanAll(AnalyzeReportJson(EmptyLedger, AsIfAbsent(report_json)), artifacts,
                      WithoutFailing(artifacts, listing[run]))
        /\ total_test_cases = SumCounted(artifacts, DOMAIN artifacts \ Failing(artifacts))

\* report.json did not parse, the first generated file listed could not be read,
\* and the run has ended with a record from the file listed after it and with
\* that file's test cases counted.
C9_Witness ==
    /\ pc = "done"
    /\ folder_exists
    /\ report_json.status = "malformed"
    /\ listing[run][1] = "EvoMaster_a.py"
    /\ ~artifacts["EvoMaster_a.py"].readable
    /\ artifacts["EvoMaster_b.py"].readable
    /\ "EvoMaster_b.py" \in Sources(detected_faults)
    /\ total_test_cases = CountMarkers(artifacts["EvoMaster_b.py"].content)
    /\ exit_code = << 0 >>

----------------------------------------------------------------------------
(* Claims about the text scanner, checked under SpecText.                  *)

\* The files the loop of _analyze_test_files has dealt with.
ScannedFiles ==
    IF pc \in {"main", "report_json"} THEN {}
    ELSE { listing[run][k] : k \in 1..(Len(listing[run]) - Len(pending)) }

\* The occurrences of a fault's API path that have the text 400 within 500
\* characters before their start or after their end.
PathsNear400(content, fault) ==
    UNION { { m \in { PathMatches(content, fault.api[a], 1)[k] :
                        k \in 1..Len(PathMatches(content, fault.api[a], 1)) } :
                \E j \in 1..Len(content) :
                    /\ content[j] = Status400
                    /\ Offset(content, j) >= m.start - 500
                    /\ Offset(content, j) + 3 <= m.end + 500 } :
            a \in 1..Len(fault.api) }

\* The test method as a record carries it.
Recorded(test_method) == IF test_method = None THEN "unknown" ELSE test_method

RecordsOf(ledger, fault_name, source, test_method) ==
    Cardinality({ i \in 1..Len(LedgerGet(ledger, fault_name)) :
                    KeyOf(ledger[fault_name][i]) = << source, test_method >> })

\* Another source has a record under the fault with the test method the locator
\* gives (no test_method in the record when it gives none).
RecordedElsewhere(ledger, fault_name, source, test_method) ==
    \E i \in 1..Len(LedgerGet(ledger, fault_name)) :
        /\ Get(ledger[fault_name][i], "source") # source
        /\ Get(ledger[fault_name][i], "test_method") = test_method

\* C5 as stated: once a file is scanned, every fault whose API path occurs in it
\* with 400 within 500 characters has exactly one record for that file and the
\* test method around the occurrence.
C5_ExactlyOnePerPair ==
    \A f \in ScannedFiles : \A n \in 1..Len(INJECTED_FAULTS) :
        \A m \in PathsNear400(artifacts[f].content, INJECTED_FAULTS[n]) :
            RecordsOf(detected_faults, INJECTED_FAULTS[n].faultName, f,
                      Recorded(FindContainingTestMethod(artifacts[f].content, m.start))) = 1

\* C5 amended: once a file is scanned, every fault whose API path occurs in it
\* with 400 within 500 characters has at most one record for that file and the
\* test method around the occurrence, and exactly one unless the ledger holds,
\* under that fault, a record of another source with the same test method.
C5_OneUnlessRecordedElsewhere ==
    \A f \in ScannedFiles : \A n \in 1..Len(INJECTED_FAULTS) :
        \A m \in PathsNear400(artifacts[f].content, INJECTED_FAULTS[n]) :
            LET test_method == FindContainingTestMethod(artifacts[f].content, m.start)
                records == RecordsOf(detected_faults, INJECTED_FAULTS[n].faultName, f,
                                     Recorded(test_method))
            IN /\ records <= 1
               /\ ~RecordedElsewhere(detected_faults, INJECTED_FAULTS[n].faultName, f,
                                     test_method) => records = 1

\* The path occurs twice inside test_0 of the first file, with 400 between the
\* occurrences, and the scan of that file has left one record for test_0, made
\* by the endpoint heuristic.
C5_Witness ==
    /\ "EvoMaster_a.py" \in ScannedFiles
    /\ artifacts["EvoMaster_a.py"].content =
          << DefMarker("test_0"), PathText(AdminOrderApi[1].prefix), Status400,
             PathText(AdminOrderApi[1].prefix) >>
    /\ RecordsOf(detected_faults, INJECTED_FAULTS[1].faultName, "EvoMaster_a.py",
                 "test_0") = 1
    /\ \E i \in 1..Len(detected_faults[INJECTED_FAULTS[1].faultName]) :
          "api_path" \in DOMAIN detected_faults[INJECTED_FAULTS[1].faultName][i]

----------------------------------------------------------------------------
(* Claims about the structured scanner, checked under SpecJson.            *)

\* The fault names of the maps with isInjected = true in a document, at any depth.
RECURSIVE InjectedNames(_)
InjectedNames(node) ==
    IF node.kind = "dict"
    THEN (IF /\ IsInjected(node)
             /\ DictHas(node, "faultName")
             /\ DictValue(node, "faultName").kind = "str"
          THEN { DictValue(node, "faultName").text }
          ELSE {})
         \cup UNION { InjectedNames(node.items[i].value) : i \in 1..Len(node.items) }
    ELSE IF node.kind = "list"
    THEN UNION { InjectedNames(node.elems[i]) : i \in 1..Len(node.elems) }
    ELSE {}

\* C6 as stated: after the structured scan of a parsed report.json, every fault
\* name F that a map with isInjected = true carries, at any depth of the
\* document and whatever its top-level node, has a record under F whose source is
\* report.json.
C6_InjectedAtAnyDepth ==
    (pc \notin {"main", "report_json"} /\ report_json.status = "parsed") =>
        \A fault_name \in InjectedNames(report_json.data) :
            \E i \in 1..Len(LedgerGet(detected_faults, fault_name)) :
                Get(detected_faults[fault_name][i], "source") = REPORT_JSON

----------------------------------------------------------------------------
(* Claims about the ledger over a whole run, checked under Spec.           *)

\* What calls of _record_detection can make of a ledger: every name keeps its
\* records, in order, at the front of its sequence; no name has an empty
\* sequence; no name has two records with one (source, test_method) pair.
GrownByRecording(before, after) ==
    /\ DOMAIN before \subseteq DOMAIN after
    /\ \A n \in DOMAIN before : IsPrefix(before[n], after[n])
    /\ \A n \in DOMAIN after :
          /\ after[n] # << >>
          /\ \A i, j \in 1..Len(after[n]) :
                KeyOf(after[n][i]) = KeyOf(after[n][j]) => i = j

C11_Step ==
    /\ (pc = "main" /\ pc' = "report_json") => detected_faults' = EmptyLedger
    /\ pc \in {"report_json", "test_files"} =>
          GrownByRecording(detected_faults, detected_faults')
    /\ pc \in {"count", "generate_report", "summary"} =>
          detected_faults' = detected_faults

\* C11: the ledger is empty when the analyzer is created; each step of the two
\* scanners leaves a ledger that calls of _record_detection make of the one
\* before (records only appended, none removed or reordered, no duplicate key,
\* no name without records); the case count, generate_report and the final
\* summary leave the ledger as it is, key set and record sequences alike.
C11_LedgerLifecycle == [][C11_Step]_vars

\* The report is written, the ledger holds records from report.json and from a
\* generated file, and a catalog fault without records has no key.
C11_Witness ==
    /\ pc = "summary"
    /\ report.written
    /\ REPORT_JSON \in Sources(detected_faults)
    /\ "EvoMaster_a.py" \in Sources(detected_faults)
    /\ INJECTED_FAULTS[5].faultName \notin DOMAIN detected_faults
    /\ report.undetected_count > 0

----------------------------------------------------------------------------
(* Claims about the endpoint pre-check, checked under SpecText.            *)

\* The records the endpoint-proximity heuristic makes carry the matched path.
ByEndpoint(details) == "api_path" \in DOMAIN details

\* C12 as stated: the endpoint heuristic emits a record only if the ledger then
\* holds no record under the fault name with the same resolved test method,
\* whatever that record's source and also when the resolved test method is
\* 'unknown'.  The ledger only grows at its end, so: no record made by the
\* endpoint heuristic comes after a record under the same name with the same
\* test method.
C12_EmitsOnlyIfNoneForMethod ==
    \A n \in DOMAIN detected_faults :
        \A i \in 1..Len(detected_faults[n]) :
            ByEndpoint(detected_faults[n][i]) =>
                \A j \in 1..(i - 1) :
                    Get(detected_faults[n][j], "test_method")
                        # Get(detected_faults[n][i], "test_method")

----------------------------------------------------------------------------
(* Claims about the records of the structured scanner, checked under       *)
(* SpecJson.                                                               *)

\* What a depth-first walk of a document discovers, in order: a dict's own
\* isInjected marker first, then its items in document order (a string value
\* for each catalog name it contains, any other value by descent), a list's
\* elements in order.
RECURSIVE Discoveries(_, _)
RECURSIVE ItemDiscoveries(_, _, _)
RECURSIVE ElemDiscoveries(_, _, _)
RECURSIVE NamesContained(_, _, _)

NamesContained(text, path, f) ==
    IF f > Len(INJECTED_FAULTS) THEN << >>
    ELSE (IF Contains(text, INJECTED_FAULTS[f].faultName)
          THEN << [name |-> INJECTED_FAULTS[f].faultName,
                   details |-> ContextDetails(REPORT_JSON, path,
                                  SubSeq(text, 1, Min(Len(text), 200)))] >>
          ELSE << >>)
         \o NamesContained(text, path, f + 1)

Discoveries(node, path) ==
    IF node.kind = "dict"
    THEN (IF IsInjected(node)
             /\ (DictHas(node, "faultName") => Hashable(DictValue(node, "faultName")))
          THEN << [name |-> IF DictHas(node, "faultName")
                            THEN KeyName(DictValue(node, "faultName")) ELSE UNKNOWN,
                   details |-> InjectedDetails(REPORT_JSON, path,
                                               FieldText(node, "message"),
                                               FieldText(node, "details"))] >>
          ELSE << >>)
         \o ItemDiscoveries(node, path, 1)
    ELSE IF node.kind = "list" THEN ElemDiscoveries(node, path, 1)
    ELSE << >>

ItemDiscoveries(node, path, i) ==
    IF i > Len(node.items) THEN << >>
    ELSE (IF node.items[i].value.kind = "str"
          THEN NamesContained(node.items[i].value.text,
                              KeyPath(path, node.items[i].key), 1)
          ELSE Discoveries(node.items[i].value, KeyPath(path, node.items[i].key)))
         \o ItemDiscoveries(node, path, i + 1)

ElemDiscoveries(node, path, i) ==
    IF i > Len(node.elems) THEN << >>
    ELSE Discoveries(node.elems[i], IndexPath(path, i - 1))
         \o ElemDiscoveries(node, path, i + 1)

FirstDiscovery(found, fault_name) ==
    found[CHOOSE i \in 1..Len(found) :
            /\ found[i].name = fault_name
            /\ \A j \in 1..(i - 1) : found[j].name # fault_name].details

\* The structured scan is over and the text scan has not begun.
AfterStructuredScan ==
    pc = "test_files" /\ pending = listing[run] /\ report_json.status = "parsed"

\* C13: right after the structured scan of a parsed document, every fault name
\* of the ledger has exactly one record (so no name has more than one), its
\* source is report.json, it has no test method, and it is the first record a
\* depth-first walk of the document discovers for that name, whichever of the
\* two rules discovered it.
C13_StructuredCollapse ==
    AfterStructuredScan =>
        \A n \in DOMAIN detected_faults :
            /\ Len(detected_faults[n]) = 1
            /\ Get(detected_faults[n][1], "source") = REPORT_JSON
            /\ "test_method" \notin DOMAIN detected_faults[n][1]
            /\ detected_faults[n][1] = FirstDiscovery(Discoveries(report_json.data, ""), n)

\* A string field of one node names the fault, a later node carries the
\* isInjected marker for it and names it again in its faultName string: three
\* discoveries, and the record kept is the string field's.
C13_Witness ==
    /\ AfterStructuredScan
    /\ INJECTED_FAULTS[9].faultName \in DOMAIN detected_faults
    /\ INJECTED_FAULTS[9].faultName \in InjectedNames(report_json.data)
    /\ "context" \in DOMAIN detected_faults[INJECTED_FAULTS[9].faultName][1]
    /\ Cardinality({ i \in 1..Len(Discoveries(report_json.data, "")) :
                       Discoveries(report_json.data, "")[i].name
                           = INJECTED_FAULTS[9].faultName }) = 3

----------------------------------------------------------------------------
(* Claims about the statistics table, checked under SpecJson.              *)

RECURSIVE SumOfCounts(_, _)
SumOfCounts(rows, i) ==
    IF i > Len(rows) THEN 0 ELSE rows[i].count + SumOfCounts(rows, i + 1)

\* C14 as stated: in every written report the record total of the TOTAL row is
\* the sum of the Count values of the per-fault rows above it.
C14_TotalIsSumOfCounts ==
    report.written => report.total_row.records = SumOfCounts(report.statistics, 1)

----------------------------------------------------------------------------
(* Claims about the order of the files, checked under Spec: the second     *)
(* invocation may list the same files in another order than the first.     *)

NamesOf(keys) == { k[1] : k \in keys }

BothRunsOver == run = 2 /\ pc = "done" /\ folder_exists

\* C15 as stated: whatever the two orders in which the files are listed, the
\* two final ledgers have the same fault names and the same
\* (fault name, source, test method) keys.
C15_SameKeysInAnyOrder ==
    BothRunsOver =>
        /\ NamesOf(LedgerKeys(detected_faults)) = NamesOf(first_keys)
        /\ LedgerKeys(detected_faults) = first_keys

\* C15 amended: whatever the two orders in which the files are listed, the two
\* final ledgers have the same fault names.
C15_SameNamesInAnyOrder ==
    BothRunsOver => NamesOf(LedgerKeys(detected_faults)) = NamesOf(first_keys)

\* The two invocations listed the two readable generated files in opposite
\* orders and ended with the same fault names under different keys.
C15_Witness ==
    /\ BothRunsOver
    /\ artifacts["EvoMaster_a.py"].readable
    /\ artifacts["EvoMaster_b.py"].readable
    /\ listing[1] = << "EvoMaster_a.py", "EvoMaster_b.py", "em_test_utils.py" >>
    /\ listing[2] = << "EvoMaster_b.py", "EvoMaster_a.py", "em_test_utils.py" >>
    /\ NamesOf(LedgerKeys(detected_faults)) = NamesOf(first_keys)
    /\ LedgerKeys(detected_faults) # first_keys

=============================================================================
